---- MODULE Spec2Model ----
(***************************************************************************)
(* Financial Ratio Analyzer (src/Ratio.py): the statement normalizer       *)
(* (load_statements.norm), line-item extraction (sget), avg_series,        *)
(* safe_div, compute_ratios and the script's control flow (terminal check, *)
(* year slice, market-ratio block, display, download).                     *)
(*                                                                         *)
(* Floating-point values are modelled as exact rationals extended with     *)
(* NaN, +inf and -inf (IEEE-754 special values as numpy produces them);    *)
(* rounding, overflow and underflow are not modelled.  None is the Python   *)
(* None.  A pandas Series is a function from its index labels to values;   *)
(* every series of this program is indexed in ascending label order, so    *)
(* the order is the order of the labels.                                   *)
(***************************************************************************)
EXTENDS Integers, Sequences, FiniteSets, TLC

VARIABLES
    pc,            \* position of the running script / of the function under check
    n, d, out,     \* safe_div: operands and result
    raised,        \* whether the call under check raised
    raw, normed, renormed,  \* norm: raw statement, norm(raw), norm(norm(raw))
    inc, bal,      \* the normalized income statement and balance sheet
    profitability, liquidity, leverage, efficiency,  \* the four ratio tables
    locals,        \* the locals of the last compute_ratios call
    show_market,   \* the "Show Market Ratios" checkbox
    market_df,     \* the market table (metric -> value), empty when not built
    exc,           \* the exception the market block caught, "none" when none
    messages,      \* the st.error / st.info messages issued, in order
    shown,         \* the ratio families displayed
    csv            \* the combined table handed to the download button

divVars   == <<n, d, out>>
normVars  == <<raw, normed, renormed>>
stmtVars  == <<inc, bal>>
ratioVars == <<profitability, liquidity, leverage, efficiency, locals>>

tableVars == <<profitability, liquidity, leverage, efficiency>>
uiVars    == <<show_market, market_df, exc, messages, shown, csv>>

vars == <<pc, raised, divVars, normVars, stmtVars, ratioVars, uiVars>>

(***************************************************************************)
(* Values                                                                  *)
(***************************************************************************)
NaN  == [k |-> "nan",  p |-> 0, q |-> 1]
PInf == [k |-> "pinf", p |-> 0, q |-> 1]
NInf == [k |-> "ninf", p |-> 0, q |-> 1]
None == [k |-> "none", p |-> 0, q |-> 1]
Junk == [k |-> "str",  p |-> 0, q |-> 1]   \* a non-numeric cell (a string)

AbsI(i) == IF i < 0 THEN -i ELSE i

RECURSIVE GCD(_, _)
GCD(a, b) == IF b = 0 THEN a ELSE GCD(b, a % b)

\* the rational num/den (den # 0) in lowest terms with a positive denominator
Fin(num, den) ==
    LET g == GCD(AbsI(num), AbsI(den))
        s == IF den < 0 THEN -1 ELSE 1
    IN  [k |-> "fin", p |-> (s * num) \div g, q |-> AbsI(den) \div g]

Num(i) == [k |-> "fin", p |-> i, q |-> 1]

IsFin(v)  == v.k = "fin"
IsInf(v)  == v.k \in {"pinf", "ninf"}
IsZero(v) == v.k = "fin" /\ v.p = 0
\* sign of a non-NaN value: -1, 0, 1
Sign(v) == CASE v.k = "pinf" -> 1
             [] v.k = "ninf" -> -1
             [] OTHER -> IF v.p > 0 THEN 1 ELSE IF v.p < 0 THEN -1 ELSE 0
InfOf(s) == IF s > 0 THEN PInf ELSE NInf

\* IEEE-754 division as numpy performs it on float64 (zero is +0.0)
FDiv(a, b) ==
    CASE a.k = "nan" \/ b.k = "nan" -> NaN
      [] IsInf(a) /\ IsInf(b) -> NaN
      [] IsInf(a) -> IF Sign(b) < 0 THEN InfOf(-Sign(a)) ELSE InfOf(Sign(a))
      [] IsInf(b) -> Num(0)
      [] IsZero(b) -> IF a.p = 0 THEN NaN ELSE InfOf(Sign(a))
      [] OTHER -> Fin(a.p * b.q, a.q * b.p)

FAdd(a, b) ==
    CASE a.k = "nan" \/ b.k = "nan" -> NaN
      [] IsInf(a) /\ IsInf(b) -> IF a.k = b.k THEN a ELSE NaN
      [] IsInf(a) -> a
      [] IsInf(b) -> b
      [] OTHER -> Fin(a.p * b.q + b.p * a.q, a.q * b.q)

FNeg(a) == CASE a.k = "pinf" -> NInf
             [] a.k = "ninf" -> PInf
             [] a.k = "fin" -> [a EXCEPT !.p = -a.p]
             [] OTHER -> a

FSub(a, b) == FAdd(a, FNeg(b))

FMul(a, b) ==
    CASE a.k = "nan" \/ b.k = "nan" -> NaN
      [] IsInf(a) \/ IsInf(b) ->
           IF Sign(a) = 0 \/ Sign(b) = 0 THEN NaN ELSE InfOf(Sign(a) * Sign(b))
      [] OTHER -> Fin(a.p * b.p, a.q * b.q)

FAbs(a) == CASE a.k = "ninf" -> PInf
             [] a.k = "fin" -> [a EXCEPT !.p = AbsI(a.p)]
             [] OTHER -> a

\* pd.isna / np.isnan
IsNaN(v) == v.k = "nan"

EmptySeries == [y \in {} |-> NaN]

(***************************************************************************)
(* safe_div (src/Ratio.py:56-69).  An operand is a Series (ser = TRUE, s   *)
(* its values by label) or a scalar (ser = FALSE, x its value).            *)
(***************************************************************************)
Ser(f) == [ser |-> TRUE,  s |-> f, x |-> NaN]
Sca(v) == [ser |-> FALSE, s |-> EmptySeries, x |-> v]

\* Series / Series: pandas aligns the two on the union of their labels and
\* fills a label either side lacks with NaN before dividing
SeriesDiv(a, b) ==
    [y \in (DOMAIN a) \cup (DOMAIN b) |->
        FDiv(IF y \in DOMAIN a THEN a[y] ELSE NaN,
             IF y \in DOMAIN b THEN b[y] ELSE NaN)]

\* a safe_div whose last line keeps the infinities
ReplaceInf_Identity(f) == f

\* out.replace([np.inf, -np.inf], np.nan)
ReplaceInf(f) == [y \in DOMAIN f |-> IF IsInf(f[y]) THEN NaN ELSE f[y]]

\* the label of pd.Series([v]): a RangeIndex starting at 0
RangeLabel == 0

\* the guard of the scalar/scalar branch: d == 0 or d is None
ScalarGuard(dv) == IsZero(dv) \/ dv = None

\* TypeError: a float array or a Python number divided by or dividing None
safe_div_raises(nn, dd) ==
    CASE nn.ser /\ dd.ser -> FALSE
      [] nn.ser -> dd.x = None
      [] dd.ser -> FALSE
      [] OTHER -> ~ScalarGuard(dd.x) /\ nn.x = None

safe_div(nn, dd) ==
    LET quot ==
          CASE nn.ser /\ dd.ser -> SeriesDiv(nn.s, dd.s)
            [] nn.ser -> [y \in DOMAIN nn.s |-> FDiv(nn.s[y], dd.x)]
            [] dd.ser ->
                 SeriesDiv([y \in DOMAIN dd.s |->
                               IF nn.x = None THEN NaN ELSE nn.x], dd.s)
            [] OTHER ->
                 IF ScalarGuard(dd.x)
                 THEN [y \in {RangeLabel} |-> NaN]
                 ELSE [y \in {RangeLabel} |-> FDiv(nn.x, dd.x)]
    IN  ReplaceInf(quot)

(***************************************************************************)
(* load_statements.norm (src/Ratio.py:23-38).  A table is the sequence of  *)
(* its rows in index order; a row is its index entry (idx) and its values  *)
(* (row: the identity of the raw row the values came from, norm never      *)
(* reads or changes a value).  An index entry is a timestamp (k = "ts",    *)
(* calendar year y, position o within the year), a label that does not     *)
(* parse as a date (k = "bad"), an integer (k = "int", the integer in o),  *)
(* or NaT.  The parseable dates of a raw statement are distinct, as the    *)
(* period-end dates of a provider's statement are.                         *)
(***************************************************************************)
Ts(y, o)   == [k |-> "ts",  y |-> y, o |-> o]
IntIdx(i)  == [k |-> "int", y |-> 0, o |-> i]
BadIdx     == [k |-> "bad", y |-> 0, o |-> 0]
NaT        == [k |-> "nat", y |-> 0, o |-> 0]
EpochYear  == 1970

\* a to_datetime that read an integer index entry as a year
to_datetime_IntAsYear(e) ==
    CASE e.k = "ts"  -> e
      [] e.k = "int" -> Ts(e.o, 1)
      [] OTHER       -> NaT

\* pd.to_datetime(index, errors='coerce'): an unparseable label becomes NaT,
\* an integer i is read as i nanoseconds after 1970-01-01
to_datetime(e) ==
    CASE e.k = "ts"  -> e
      [] e.k = "int" -> Ts(EpochYear, e.o)
      [] OTHER       -> NaT

TsLess(a, b) == a.y < b.y \/ (a.y = b.y /\ a.o < b.o)

\* rows ordered by Less of their index entries (which are distinct)
SortRows(t, Less(_, _)) ==
    LET rank(i) == 1 + Cardinality({j \in 1..Len(t) : Less(t[j].idx, t[i].idx)})
    IN  [r \in 1..Len(t) |-> t[CHOOSE i \in 1..Len(t) : rank(i) = r]]

\* the rows of t at the positions in keep, in order
RECURSIVE Pick(_, _, _)
Pick(t, keep, i) ==
    IF i > Len(t) THEN <<>>
    ELSE (IF i \in keep THEN <<t[i]>> ELSE <<>>) \o Pick(t, keep, i + 1)

\* drop_duplicates(subset=["Year"], keep="first")
DropDuplicateYears_KeepFirst(t) ==
    Pick(t, {i \in 1..Len(t) :
               ~\E j \in 1..(i - 1) : t[j].idx.y = t[i].idx.y}, 1)

\* drop_duplicates(subset=["Year"], keep="last")
DropDuplicateYears(t) ==
    Pick(t, {i \in 1..Len(t) :
               ~\E j \in (i + 1)..Len(t) : t[j].idx.y = t[i].idx.y}, 1)

\* a DataFrame: its column labels and its rows in index order; a row is its
\* index entry and its cells by column
EmptyFrame == [cols |-> {}, rows |-> <<>>]

\* df.empty: no rows or no columns
IsEmptyFrame(df) == df.rows = <<>> \/ df.cols = {}

norm(df) ==
    IF IsEmptyFrame(df) THEN EmptyFrame
    ELSE
      LET t      == df.rows
          dated  == [i \in 1..Len(t) |->
                        [idx |-> to_datetime(t[i].idx), row |-> t[i].row]]
          valid  == Pick(dated, {i \in 1..Len(dated) : dated[i].idx # NaT}, 1)
          sorted == SortRows(valid, TsLess)
          dedup  == DropDuplicateYears(sorted)
          byYear == [i \in 1..Len(dedup) |->
                        [idx |-> IntIdx(dedup[i].idx.y), row |-> dedup[i].row]]
      IN  [cols |-> df.cols, rows |-> SortRows(byYear, LAMBDA a, b : a.o < b.o)]

(***************************************************************************)
(* sget (src/Ratio.py:43-48): a column of a normalized statement as a      *)
(* float series of the years that hold a number.                           *)
(***************************************************************************)
\* pd.to_numeric(errors='coerce') on one cell: what is no number becomes NaN
to_numeric(c) == IF c.k \in {"str", "none"} THEN NaN ELSE c

IsEmptySeries(s) == DOMAIN s = {}

sget(df, col) ==
    IF IsEmptyFrame(df) \/ col \notin df.cols THEN EmptySeries
    ELSE
      LET t == df.rows
          s == [i \in 1..Len(t) |-> to_numeric(t[i].row[col])]
          kept == {i \in 1..Len(t) : ~IsNaN(s[i])}
      IN  [y \in {t[i].idx.o : i \in kept} |->
              s[CHOOSE i \in kept : t[i].idx.o = y]]

(***************************************************************************)
(* avg_series (src/Ratio.py:51-53)                                         *)
(***************************************************************************)
\* current.shift(1): each position takes the value of the position before
\* it, the first takes NaN
Shift1(s) ==
    [y \in DOMAIN s |->
        LET before == {z \in DOMAIN s : z < y}
        IN  IF before = {} THEN NaN
            ELSE s[CHOOSE z \in before : \A w \in before : w <= z]]

avg_series(current) ==
    LET prev == Shift1(current)
    IN  [y \in DOMAIN current |-> FDiv(FAdd(current[y], prev[y]), Num(2))]

(***************************************************************************)
(* compute_ratios (src/Ratio.py:74-161)                                    *)
(***************************************************************************)
DaysPerYear == 365

\* sorted(set): the members of a set of integers in ascending order
RECURSIVE Sorted(_)
Sorted(S) ==
    IF S = {} THEN <<>>
    ELSE LET m == CHOOSE x \in S : \A z \in S : x <= z
         IN  <<m>> \o Sorted(S \ {m})

Range(q) == {q[i] : i \in 1..Len(q)}

\* a reindex that filled the years an item lacks with 0
Reindex_FillZero(s, years) ==
    [y \in Range(years) |-> IF y \in DOMAIN s THEN s[y] ELSE Num(0)]

\* s.reindex(years)
Reindex(s, years) ==
    [y \in Range(years) |-> IF y \in DOMAIN s THEN s[y] ELSE NaN]

\* a - b on two series (aligned on the union of their labels)
SeriesSub(a, b) ==
    [y \in (DOMAIN a) \cup (DOMAIN b) |->
        FSub(IF y \in DOMAIN a THEN a[y] ELSE NaN,
             IF y \in DOMAIN b THEN b[y] ELSE NaN)]

SeriesAdd(a, b) ==
    [y \in (DOMAIN a) \cup (DOMAIN b) |->
        FAdd(IF y \in DOMAIN a THEN a[y] ELSE NaN,
             IF y \in DOMAIN b THEN b[y] ELSE NaN)]

SeriesAbs(a) == [y \in DOMAIN a |-> FAbs(a[y])]

\* pd.DataFrame({name: series, ...}, index=years)
RatioFrame(cols, years) ==
    [index |-> years, col |-> [c \in DOMAIN cols |-> Reindex(cols[c], years)]]

\* the receivables aliases tried in the opposite order
ReceivablesOf_NetFirst(balDf) ==
    LET first == sget(balDf, "Net Receivables")
    IN  IF IsEmptySeries(first) THEN sget(balDf, "Accounts Receivable") ELSE first

\* receivables: 'Accounts Receivable', else 'Net Receivables' (lines 88-90)
ReceivablesOf(balDf) ==
    LET first == sget(balDf, "Accounts Receivable")
    IN  IF IsEmptySeries(first) THEN sget(balDf, "Net Receivables") ELSE first

\* total equity: 'Total Equity Gross Minority Interest', else 'Total Equity',
\* else 'Total Stockholder Equity' (lines 94-98; also lines 226-230)
TotalEquityOf(balDf) ==
    LET e1 == sget(balDf, "Total Equity Gross Minority Interest")
        e2 == IF IsEmptySeries(e1) /\ "Total Equity" \in balDf.cols
              THEN sget(balDf, "Total Equity") ELSE e1
    IN  IF IsEmptySeries(e2) /\ "Total Stockholder Equity" \in balDf.cols
        THEN sget(balDf, "Total Stockholder Equity") ELSE e2

\* an index made of the years all the anchor items share
AnchorYears_Intersection(rev, ni, ebit, cur_assets, cur_liab, total_assets, total_equity) ==
    Sorted((DOMAIN rev) \cap (DOMAIN ni) \cap (DOMAIN ebit) \cap
           (DOMAIN cur_assets) \cap (DOMAIN cur_liab) \cap
           (DOMAIN total_assets) \cap (DOMAIN total_equity))

\* the sorted union of the anchor items' years (lines 101-105)
AnchorYears(rev, ni, ebit, cur_assets, cur_liab, total_assets, total_equity) ==
    Sorted((DOMAIN rev) \cup (DOMAIN ni) \cup (DOMAIN ebit) \cup
           (DOMAIN cur_assets) \cup (DOMAIN cur_liab) \cup
           (DOMAIN total_assets) \cup (DOMAIN total_equity))

\* safe_div on two series, as compute_ratios calls it
SD(a, b) == safe_div(Ser(a), Ser(b))
\* safe_div(365, series)
Days(turnover) == safe_div(Sca(Num(DaysPerYear)), Ser(turnover))

\* lines 76-98: the extracted line items
ExtractItems(incDf, balDf) ==
    [rev           |-> sget(incDf, "Total Revenue"),
     ni            |-> sget(incDf, "Net Income"),
     ebit          |-> sget(incDf, "EBIT"),
     int_exp       |-> sget(incDf, "Interest Expense"),
     cogs          |-> sget(incDf, "Cost Of Revenue"),
     gross_profit  |-> sget(incDf, "Gross Profit"),
     cur_assets    |-> sget(balDf, "Current Assets"),
     cur_liab      |-> sget(balDf, "Current Liabilities"),
     cash_sti      |-> sget(balDf, "Cash Cash Equivalents And Short Term Investments"),
     inventory     |-> sget(balDf, "Inventory"),
     receivables   |-> ReceivablesOf(balDf),
     payables      |-> sget(balDf, "Accounts Payable"),
     total_assets  |-> sget(balDf, "Total Assets"),
     total_debt    |-> sget(balDf, "Total Debt"),
     total_equity  |-> TotalEquityOf(balDf)]

\* lines 107-113: align, mapped over every extracted item
AlignItems(x, years) == [i \in DOMAIN x |-> Reindex(x[i], years)]

\* lines 115-119
Averages(item) ==
    [total_assets |-> avg_series(item.total_assets),
     inventory    |-> avg_series(item.inventory),
     receivables  |-> avg_series(item.receivables),
     payables     |-> avg_series(item.payables),
     total_equity |-> avg_series(item.total_equity)]

\* lines 121-159: the four tables, and whether a safe_div call raised
RatioTables(item, avg, years) ==
    LET quick_assets == SeriesSub(item.cur_assets, item.inventory)
        inv_turn == SD(item.cogs, avg.inventory)
        rec_turn == SD(item.rev, avg.receivables)
        pay_turn == SD(item.cogs, avg.payables)
        calls == {<<item.gross_profit, item.rev>>, <<item.ebit, item.rev>>,
                  <<item.ni, item.rev>>, <<item.ni, avg.total_assets>>,
                  <<item.ni, avg.total_equity>>, <<item.rev, avg.total_assets>>,
                  <<item.cur_assets, item.cur_liab>>, <<quick_assets, item.cur_liab>>,
                  <<item.cash_sti, item.cur_liab>>,
                  <<item.total_debt, item.total_assets>>,
                  <<item.total_debt, item.total_equity>>,
                  <<item.ebit, SeriesAbs(item.int_exp)>>, <<item.cogs, avg.inventory>>,
                  <<item.rev, avg.receivables>>, <<item.cogs, avg.payables>>}
    IN  [raised |-> \/ \E c \in calls : safe_div_raises(Ser(c[1]), Ser(c[2]))
                    \/ \E t \in {inv_turn, rec_turn, pay_turn} :
                          safe_div_raises(Sca(Num(DaysPerYear)), Ser(t)),
         profitability |-> RatioFrame(
            ("Gross Margin" :> SD(item.gross_profit, item.rev) @@
             "EBIT Margin" :> SD(item.ebit, item.rev) @@
             "Net Profit Margin" :> SD(item.ni, item.rev) @@
             "ROA" :> SD(item.ni, avg.total_assets) @@
             "ROE" :> SD(item.ni, avg.total_equity) @@
             "Asset Turnover" :> SD(item.rev, avg.total_assets)), years),
         liquidity |-> RatioFrame(
            ("Current Ratio" :> SD(item.cur_assets, item.cur_liab) @@
             "Quick Ratio" :> SD(quick_assets, item.cur_liab) @@
             "Cash Ratio" :> SD(item.cash_sti, item.cur_liab) @@
             "Working Capital" :> SeriesSub(item.cur_assets, item.cur_liab)), years),
         leverage |-> RatioFrame(
            ("Debt to Assets" :> SD(item.total_debt, item.total_assets) @@
             "Debt to Equity" :> SD(item.total_debt, item.total_equity) @@
             "Interest Coverage" :> SD(item.ebit, SeriesAbs(item.int_exp))), years),
         efficiency |-> RatioFrame(
            ("Inventory Turnover" :> inv_turn @@
             "Receivables Turnover" :> rec_turn @@
             "Payables Turnover" :> pay_turn @@
             "Days Inventory Outstanding" :> Days(inv_turn) @@
             "Days Sales Outstanding" :> Days(rec_turn) @@
             "Days Payables Outstanding" :> Days(pay_turn) @@
             "Cash Conversion Cycle (days)" :>
                 SeriesSub(SeriesAdd(Days(inv_turn), Days(rec_turn)), Days(pay_turn))),
            years)]

\* the function's result, with its locals kept for the properties stated
\* about them (extracted: before alignment, item: aligned, avg: averages)
WithLocals(t, x, item, avg, years) ==
    [raised |-> t.raised,
     profitability |-> t.profitability, liquidity |-> t.liquidity,
     leverage |-> t.leverage, efficiency |-> t.efficiency,
     locals |-> [years |-> years,
                 extracted |-> [receivables |-> x.receivables,
                                total_equity |-> x.total_equity],
                 item |-> item, avg |-> avg]]

FromItems(x, item, years) ==
    WithLocals(RatioTables(item, Averages(item), years), x, item, Averages(item), years)

\* lines 101-105
YearsOf(x) ==
    AnchorYears(x.rev, x.ni, x.ebit, x.cur_assets, x.cur_liab,
                x.total_assets, x.total_equity)

FromExtracted(x) == FromItems(x, AlignItems(x, YearsOf(x)), YearsOf(x))

compute_ratios(incDf, balDf) == FromExtracted(ExtractItems(incDf, balDf))

(***************************************************************************)
(* Input statements.  A statement has a row for some of the fiscal years   *)
(* of a year set; each row has one of a few shapes.  Shape 1 is a complete *)
(* row of positive numbers; the other shapes leave some of the line items  *)
(* missing (NaN or a non-numeric cell), zero or negative, a different      *)
(* selection for each shape and year.  A layout names the line items the   *)
(* provider does not report at all (columns absent from the table).        *)
(***************************************************************************)
IncCols == <<"Total Revenue", "Net Income", "EBIT", "Interest Expense",
             "Cost Of Revenue", "Gross Profit", "Basic EPS", "Diluted EPS">>
BalCols == <<"Current Assets", "Current Liabilities",
             "Cash Cash Equivalents And Short Term Investments", "Inventory",
             "Accounts Receivable", "Net Receivables", "Accounts Payable",
             "Total Assets", "Total Debt", "Total Equity Gross Minority Interest",
             "Total Equity", "Total Stockholder Equity", "Share Issued",
             "Ordinary Shares Number">>

NShapes == 2

Healthy(c, y) == Num(c + (y % 4) + 1)

ShapeCell(k, c, y) ==
    LET t == (c + k + y) % 4
    IN  CASE k = 1 -> Healthy(c, y)
          [] t = 0 -> IF c % 4 = 2 THEN Junk ELSE NaN
          [] t = 1 -> Num(0)
          [] t = 2 -> Num(-(c + 1))
          [] OTHER -> Healthy(c, y)

Layouts ==
    { [inc |-> {}, bal |-> {}],
      [inc |-> {"Basic EPS"},
       bal |-> {"Accounts Receivable", "Total Equity Gross Minority Interest",
                "Share Issued"}],
      [inc |-> {"EBIT", "Interest Expense", "Basic EPS", "Diluted EPS"},
       bal |-> {"Accounts Receivable", "Net Receivables", "Inventory", "Total Debt",
                "Total Equity Gross Minority Interest", "Total Equity",
                "Ordinary Shares Number"}] }

\* the raw statement with a row of shape shapeOf[y] for each year y that has
\* one (shape 0: no row), most recent first as the provider lists them
RECURSIVE Reverse(_)
Reverse(q) == IF q = <<>> THEN <<>> ELSE Reverse(Tail(q)) \o <<Head(q)>>

RawStatement(colseq, dropped, shapeOf) ==
    LET cols == Range(colseq) \ dropped
        ord(c) == CHOOSE i \in 1..Len(colseq) : colseq[i] = c
        ys == Reverse(Sorted({y \in DOMAIN shapeOf : shapeOf[y] # 0}))
    IN  IF ys = <<>> THEN EmptyFrame
        ELSE [cols |-> cols,
              rows |-> [i \in 1..Len(ys) |->
                          [idx |-> Ts(ys[i], 1),
                           row |-> [c \in cols |-> ShapeCell(shapeOf[ys[i]], ord(c), ys[i])]]]]

\* the values the variables of the other specifications keep
NoFrame == [index |-> <<>>, col |-> <<>>]
Idle == Sca(NaN)
DivIdle   == n = Idle /\ d = Idle /\ out = EmptySeries
NormIdle  == raw = EmptyFrame /\ normed = EmptyFrame /\ renormed = EmptyFrame
StmtIdle  == inc = EmptyFrame /\ bal = EmptyFrame
RatioIdle == /\ profitability = NoFrame /\ liquidity = NoFrame
             /\ leverage = NoFrame /\ efficiency = NoFrame
             /\ locals = [years |-> <<>>]
UiIdle    == /\ show_market = FALSE /\ market_df = <<>> /\ exc = "none"
             /\ messages = <<>> /\ shown = {} /\ csv = <<>>

(***************************************************************************)
(* Specification SpecDiv: safe_div applied to every pair of operands of    *)
(* its contract: a year-indexed series or a number on either side, and an  *)
(* undefined (None) denominator in the scalar/scalar case.                 *)
(***************************************************************************)
MaxVal == 1
DivYears == {2021, 2022}
DivVals == {Num(i) : i \in -1..MaxVal} \cup {NaN, PInf, NInf}
DivSeries == UNION {[ys -> DivVals] : ys \in SUBSET DivYears}
DivOperands == {Ser(f) : f \in DivSeries} \cup {Sca(v) : v \in DivVals}

InitDiv ==
    /\ pc = "div_call"
    /\ n \in DivOperands
    /\ d \in DivOperands \cup (IF n.ser THEN {} ELSE {Sca(None)})
    /\ out = EmptySeries
    /\ raised = FALSE
    /\ NormIdle /\ StmtIdle /\ RatioIdle /\ UiIdle

SafeDivCall ==
    /\ pc = "div_call"
    /\ pc' = "div_done"
    /\ raised' = safe_div_raises(n, d)
    /\ out' = IF safe_div_raises(n, d) THEN EmptySeries ELSE safe_div(n, d)
    /\ UNCHANGED <<n, d, normVars, stmtVars, ratioVars, uiVars>>

NextDiv == SafeDivCall

SpecDiv == InitDiv /\ [][NextDiv]_vars

\* the denominator whose quotient is stored at label y of the result
DenomAt(y) ==
    IF d.ser THEN (IF y \in DOMAIN d.s THEN d.s[y] ELSE NaN) ELSE d.x

\* C1: safe_div never raises; its result holds no +inf or -inf; and every
\* position whose denominator is zero (0/0 included) or, in the
\* scalar/scalar case, undefined, holds a missing value.
C1_SafeDivNeverInfinite ==
    pc = "div_done" =>
        /\ ~raised
        /\ \A y \in DOMAIN out :
              /\ ~IsInf(out[y])
              /\ (IsZero(DenomAt(y)) \/ DenomAt(y) = None) => IsNaN(out[y])

\* a series numerator over a series holding a zero denominator has been divided
C1_Witness ==
    /\ pc = "div_done"
    /\ n.ser /\ d.ser
    /\ \E y \in DOMAIN out :
          /\ y \in DOMAIN n.s /\ y \in DOMAIN d.s
          /\ IsZero(d.s[y]) /\ n.s[y] = Num(1) /\ IsNaN(out[y])

(***************************************************************************)
(* Specification SpecNorm: norm applied to a raw statement, then to its    *)
(* own result.  Row i of the raw statement holds the value i, so the       *)
(* values identify the raw row they came from.                             *)
(***************************************************************************)
MaxRows == 3
MaxOrd == 2
NormYears == {EpochYear, 2021, 2022}
NormCols == {"Total Revenue"}
RawIndex == {Ts(y, o) : y \in NormYears, o \in 1..MaxOrd} \cup {BadIdx}
RawRow(i) == [c \in NormCols |-> Num(i)]
RawIndexings(len) ==
    {f \in [1..len -> RawIndex] :
        \A i, j \in 1..len : (i # j /\ f[i] # BadIdx) => f[i] # f[j]}
RawStatements ==
    {EmptyFrame} \cup
    UNION {{[cols |-> NormCols,
             rows |-> [i \in 1..len |-> [idx |-> ix[i], row |-> RawRow(i)]]] :
               ix \in RawIndexings(len)} : len \in 1..MaxRows}

InitNorm ==
    /\ pc = "norm_call"
    /\ raw \in RawStatements
    /\ normed = EmptyFrame /\ renormed = EmptyFrame
    /\ raised = FALSE
    /\ DivIdle /\ StmtIdle /\ RatioIdle /\ UiIdle

Norm ==
    /\ pc = "norm_call"
    /\ pc' = "normed"
    /\ normed' = norm(raw)
    /\ UNCHANGED <<raw, renormed, raised, divVars, stmtVars, ratioVars, uiVars>>

Renorm ==
    /\ pc = "normed"
    /\ pc' = "renormed"
    /\ renormed' = norm(normed)
    /\ UNCHANGED <<raw, normed, raised, divVars, stmtVars, ratioVars, uiVars>>

NextNorm == Norm \/ Renorm

SpecNorm == InitNorm /\ [][NextNorm]_vars

Parseable(t) == {i \in 1..Len(t) : to_datetime(t[i].idx) # NaT}
YearOf(e) == to_datetime(e).y

\* C7: norm keeps exactly one row per fiscal year of the parseable raw rows,
\* the one with the chronologically latest date of that year whatever the
\* order of the raw rows; unparseable rows contribute nothing; the output is
\* sorted ascending by year.
C7_LatestDateWins ==
    pc \in {"normed", "renormed"} =>
      LET t == raw.rows
          r == normed.rows
      IN  /\ {r[a].idx.o : a \in 1..Len(r)} = {YearOf(t[i].idx) : i \in Parseable(t)}
          /\ \A a, b \in 1..Len(r) : a < b => r[a].idx.o < r[b].idx.o
          /\ \A a \in 1..Len(r) :
                /\ r[a].idx.k = "int"
                /\ \E i \in Parseable(t) :
                      /\ r[a].row = t[i].row
                      /\ YearOf(t[i].idx) = r[a].idx.o
                      /\ \A j \in Parseable(t) :
                            YearOf(t[j].idx) = r[a].idx.o
                                => ~TsLess(t[i].idx, t[j].idx)

\* two rows of one year given latest-first, with an unparseable row between
\* them, have been collapsed to the later one
C7_Witness ==
    /\ pc = "normed"
    /\ Len(raw.rows) = 3
    /\ raw.rows[1].idx = Ts(2022, 2)
    /\ raw.rows[2].idx = BadIdx
    /\ raw.rows[3].idx = Ts(2022, 1)
    /\ normed.rows = <<[idx |-> IntIdx(2022), row |-> RawRow(1)]>>

\* C3 as stated: norm applied to an already normalized table returns the
\* same year index and the same rows
C3_NormIdempotent ==
    pc = "renormed" => renormed.rows = normed.rows

\* C3 amended: norm re-reads the integer years of a normalized table as
\* nanosecond timestamps of 1970, so a non-empty normalized table collapses
\* to the single row of its latest year, indexed 1970; norm(norm(x)) equals
\* norm(x) exactly when norm(x) is empty or is a single row of year 1970.
C3_RenormCollapsesToEpoch ==
    pc = "renormed" =>
      LET r == normed.rows
      IN  /\ r = <<>> => renormed = EmptyFrame
          /\ r # <<>> =>
                /\ renormed.cols = normed.cols
                /\ renormed.rows = <<[idx |-> IntIdx(EpochYear), row |-> r[Len(r)].row]>>
          /\ (renormed.rows = normed.rows) <=>
                (r = <<>> \/ (Len(r) = 1 /\ r[1].idx = IntIdx(EpochYear)))

\* a normalized table of two years has been normalized again
C3_Witness ==
    /\ pc = "renormed"
    /\ Len(normed.rows) = 2
    /\ normed.rows[1].idx = IntIdx(2021) /\ normed.rows[2].idx = IntIdx(2022)
    /\ renormed.rows = <<[idx |-> IntIdx(EpochYear), row |-> normed.rows[2].row]>>

(***************************************************************************)
(* Specification SpecRatios: compute_ratios applied to every pair of       *)
(* normalized statements over a set of fiscal years that skips a calendar  *)
(* year.                                                                   *)
(***************************************************************************)
RatioYears == {2020, 2022, 2023}

InitRatios ==
    /\ pc = "ratios_call"
    /\ \E l \in Layouts, si \in [RatioYears -> 0..NShapes], sb \in [RatioYears -> 0..NShapes] :
          /\ inc = norm(RawStatement(IncCols, l.inc, si))
          /\ bal = norm(RawStatement(BalCols, l.bal, sb))
    /\ raised = FALSE
    /\ DivIdle /\ NormIdle /\ RatioIdle /\ UiIdle

ComputeRatios ==
    /\ pc = "ratios_call"
    /\ pc' = "ratios_done"
    /\ LET r == compute_ratios(inc, bal)
       IN  /\ profitability' = r.profitability
           /\ liquidity' = r.liquidity
           /\ leverage' = r.leverage
           /\ efficiency' = r.efficiency
           /\ locals' = r.locals
           /\ raised' = r.raised
    /\ UNCHANGED <<divVars, normVars, stmtVars, uiVars>>

NextRatios == ComputeRatios

SpecRatios == InitRatios /\ [][NextRatios]_vars

\* the years of a statement whose cell of a column holds a number
ValidYears(df, col) ==
    IF col \notin df.cols THEN {}
    ELSE {df.rows[i].idx.o : i \in {j \in 1..Len(df.rows) :
                                      df.rows[j].row[col].k \in {"fin", "pinf", "ninf"}}}

\* the first alias of a priority list with a valid year, "" when none has one
FirstAlias(df, aliases) ==
    IF \A i \in 1..Len(aliases) : ValidYears(df, aliases[i]) = {} THEN ""
    ELSE aliases[CHOOSE i \in 1..Len(aliases) :
                   /\ ValidYears(df, aliases[i]) # {}
                   /\ \A j \in 1..(i - 1) : ValidYears(df, aliases[j]) = {}]

ReceivableAliases == <<"Accounts Receivable", "Net Receivables">>
EquityAliases == <<"Total Equity Gross Minority Interest", "Total Equity",
                   "Total Stockholder Equity">>

Frames == <<profitability, liquidity, leverage, efficiency>>

\* C6: the four tables of compute_ratios share one year index, strictly
\* ascending (so without duplicates), equal to the union of the years in
\* which an anchor item (revenue, net income, EBIT, current assets, current
\* liabilities, total assets, total equity) holds a valid value; an item
\* absent in every year takes no year away.
C6_CommonAscendingYearIndex ==
    pc = "ratios_done" =>
      LET ix == profitability.index
          anchor ==
            ValidYears(inc, "Total Revenue") \cup ValidYears(inc, "Net Income") \cup
            ValidYears(inc, "EBIT") \cup ValidYears(bal, "Current Assets") \cup
            ValidYears(bal, "Current Liabilities") \cup ValidYears(bal, "Total Assets") \cup
            ValidYears(bal, FirstAlias(bal, EquityAliases))
      IN  /\ \A i \in 1..4 : Frames[i].index = ix
          /\ \A i \in 1..4 : \A c \in DOMAIN Frames[i].col :
                DOMAIN Frames[i].col[c] = Range(ix)
          /\ \A i, j \in 1..Len(ix) : i < j => ix[i] < ix[j]
          /\ Range(ix) = anchor

\* EBIT is absent in every year and the index still holds the years 2020,
\* 2022 and 2023, the first of them contributed by the balance sheet alone
C6_Witness ==
    /\ pc = "ratios_done"
    /\ ValidYears(inc, "EBIT") = {}
    /\ ValidYears(inc, "Total Revenue") \cup ValidYears(inc, "Net Income") = {2022, 2023}
    /\ profitability.index = <<2020, 2022, 2023>>
    /\ efficiency.index = <<2020, 2022, 2023>>

\* C8: the receivables and total-equity series compute_ratios uses are the
\* extraction of the first alias, in priority order, whose extraction is
\* non-empty, values unchanged; the empty series when no alias yields one.
C8_FirstNonEmptyAlias ==
    pc = "ratios_done" =>
      LET used(name, aliases) ==
            LET a == FirstAlias(bal, aliases)
                x == locals.extracted[name]
            IN  /\ x = (IF a = "" THEN EmptySeries ELSE sget(bal, a))
                /\ DOMAIN x = ValidYears(bal, a)
                /\ \A i \in 1..Len(bal.rows) :
                      bal.rows[i].idx.o \in DOMAIN x
                          => x[bal.rows[i].idx.o] = bal.rows[i].row[a]
                /\ \A y \in DOMAIN locals.item[name] :
                      locals.item[name][y] = (IF y \in DOMAIN x THEN x[y] ELSE NaN)
      IN  /\ used("receivables", ReceivableAliases)
          /\ used("total_equity", EquityAliases)

\* 'Accounts Receivable' and 'Total Equity Gross Minority Interest' are
\* absent, so the values of 'Net Receivables' and of 'Total Equity' are used
C8_Witness ==
    /\ pc = "ratios_done"
    /\ "Accounts Receivable" \notin bal.cols
    /\ FirstAlias(bal, ReceivableAliases) = "Net Receivables"
    /\ locals.extracted.receivables = sget(bal, "Net Receivables")
    /\ locals.extracted.receivables # EmptySeries
    /\ FirstAlias(bal, EquityAliases) = "Total Equity"
    /\ locals.extracted.total_equity = sget(bal, "Total Equity")
    /\ ValidYears(bal, "Total Stockholder Equity") # {}

\* what each ratio's formula requires: the line items, the average balances,
\* and its denominator (an item, an average, or none)
Req(tab, items, avgs, denKind, den) ==
    [tab |-> tab, items |-> items, avgs |-> avgs, denKind |-> denKind, den |-> den]

RatioReq ==
    "Gross Margin" :> Req(1, {"gross_profit", "rev"}, {}, "item", "rev") @@
    "EBIT Margin" :> Req(1, {"ebit", "rev"}, {}, "item", "rev") @@
    "Net Profit Margin" :> Req(1, {"ni", "rev"}, {}, "item", "rev") @@
    "ROA" :> Req(1, {"ni", "total_assets"}, {"total_assets"}, "avg", "total_assets") @@
    "ROE" :> Req(1, {"ni", "total_equity"}, {"total_equity"}, "avg", "total_equity") @@
    "Asset Turnover" :> Req(1, {"rev", "total_assets"}, {"total_assets"}, "avg", "total_assets") @@
    "Current Ratio" :> Req(2, {"cur_assets", "cur_liab"}, {}, "item", "cur_liab") @@
    "Quick Ratio" :> Req(2, {"cur_assets", "inventory", "cur_liab"}, {}, "item", "cur_liab") @@
    "Cash Ratio" :> Req(2, {"cash_sti", "cur_liab"}, {}, "item", "cur_liab") @@
    "Working Capital" :> Req(2, {"cur_assets", "cur_liab"}, {}, "none", "") @@
    "Debt to Assets" :> Req(3, {"total_debt", "total_assets"}, {}, "item", "total_assets") @@
    "Debt to Equity" :> Req(3, {"total_debt", "total_equity"}, {}, "item", "total_equity") @@
    "Interest Coverage" :> Req(3, {"ebit", "int_exp"}, {}, "item", "int_exp") @@
    "Inventory Turnover" :> Req(4, {"cogs", "inventory"}, {"inventory"}, "avg", "inventory") @@
    "Receivables Turnover" :> Req(4, {"rev", "receivables"}, {"receivables"}, "avg", "receivables") @@
    "Payables Turnover" :> Req(4, {"cogs", "payables"}, {"payables"}, "avg", "payables")

DaysOf ==
    "Days Inventory Outstanding" :> "Inventory Turnover" @@
    "Days Sales Outstanding" :> "Receivables Turnover" @@
    "Days Payables Outstanding" :> "Payables Turnover"

CCC == "Cash Conversion Cycle (days)"

\* the statement column each line item is read from (lines 76-98)
ItemColumn ==
    [rev           |-> "Total Revenue",
     ni            |-> "Net Income",
     ebit          |-> "EBIT",
     int_exp       |-> "Interest Expense",
     cogs          |-> "Cost Of Revenue",
     gross_profit  |-> "Gross Profit",
     cur_assets    |-> "Current Assets",
     cur_liab      |-> "Current Liabilities",
     cash_sti      |-> "Cash Cash Equivalents And Short Term Investments",
     inventory     |-> "Inventory",
     receivables   |-> FirstAlias(bal, ReceivableAliases),
     payables      |-> "Accounts Payable",
     total_assets  |-> "Total Assets",
     total_debt    |-> "Total Debt",
     total_equity  |-> FirstAlias(bal, EquityAliases)]

IncomeItems == {"rev", "ni", "ebit", "int_exp", "cogs", "gross_profit"}

\* the statement holds no number for the item in year y
ItemMissing(i, y) ==
    y \notin ValidYears(IF i \in IncomeItems THEN inc ELSE bal, ItemColumn[i])

\* C4: in every ratio table, a value is missing whenever a line item its
\* formula requires is missing for that year, or its average balance is
\* missing, or its denominator is zero (never 0 in place of missing, never an
\* error); a days-outstanding value is missing when its turnover is missing
\* or zero, and the cash conversion cycle when any of DIO, DSO, DPO is.
C4_MissingPropagates ==
    pc = "ratios_done" =>
      /\ ~raised
      /\ \A y \in Range(locals.years) :
            /\ \A r \in DOMAIN RatioReq :
                  LET q == RatioReq[r]
                      denZero == CASE q.denKind = "item" -> IsZero(locals.item[q.den][y])
                                   [] q.denKind = "avg" -> IsZero(locals.avg[q.den][y])
                                   [] OTHER -> FALSE
                  IN  (\/ \E i \in q.items : ItemMissing(i, y)
                       \/ \E a \in q.avgs : IsNaN(locals.avg[a][y])
                       \/ denZero)
                          => IsNaN(Frames[q.tab].col[r][y])
            /\ \A t \in DOMAIN DaysOf :
                  (IsNaN(efficiency.col[DaysOf[t]][y]) \/ IsZero(efficiency.col[DaysOf[t]][y]))
                      => IsNaN(efficiency.col[t][y])
            /\ (\E t \in DOMAIN DaysOf : IsNaN(efficiency.col[t][y]))
                  => IsNaN(efficiency.col[CCC][y])

\* total debt is missing in a year whose total assets are a non-zero
\* number, and debt to assets is missing; a net income over a revenue of zero
\* is missing; a turnover of zero gives missing days and a missing cycle; and
\* in some year a days-outstanding value is a number
C4_Witness ==
    /\ pc = "ratios_done"
    /\ \E y \in Range(locals.years) :
          /\ ItemMissing("total_debt", y)
          /\ IsFin(locals.item.total_assets[y]) /\ ~IsZero(locals.item.total_assets[y])
          /\ IsNaN(leverage.col["Debt to Assets"][y])
    /\ \E y \in Range(locals.years) :
          /\ IsZero(locals.item.rev[y])
          /\ IsFin(locals.item.ni[y]) /\ ~IsZero(locals.item.ni[y])
          /\ IsNaN(profitability.col["Net Profit Margin"][y])
    /\ \E y \in Range(locals.years) :
          /\ \E t \in DOMAIN DaysOf :
                IsZero(efficiency.col[DaysOf[t]][y]) /\ IsNaN(efficiency.col[t][y])
          /\ IsNaN(efficiency.col[CCC][y])
    /\ \E y \in Range(locals.years) : \E t \in DOMAIN DaysOf : IsFin(efficiency.col[t][y])

AveragedItems == {"total_assets", "inventory", "receivables", "payables", "total_equity"}

\* C5: for every averaged line item and every year y of the aligned index,
\* also when the index skips calendar years, the average at y is the mean of
\* the item's values for year y and for the prior fiscal year y-1, missing
\* at the earliest year and whenever either value is missing.
C5_AverageOfPriorFiscalYear ==
    pc = "ratios_done" =>
      \A a \in AveragedItems : \A y \in Range(locals.years) :
          LET cur == locals.item[a][y]
              prior == IF y - 1 \in Range(locals.years)
                       THEN locals.item[a][y - 1] ELSE NaN
          IN  locals.avg[a][y] = FDiv(FAdd(cur, prior), Num(2))

(***************************************************************************)
(* The market-ratio block (src/Ratio.py:200-247).  prov is what the data   *)
(* provider answers: fast_info's last_price, last_close and market_cap     *)
(* (None when the field is absent), the Close column of history (a         *)
(* sequence, empty when the history is), the sum of the last four          *)
(* dividends (None when there is no dividend series, NaN for an empty      *)
(* one), and the call of the provider that fails, if any.                  *)
(***************************************************************************)
\* x is None or (isinstance(x, float) and np.isnan(x))
NoneOrNaN(x) == x = None \/ IsNaN(x)

\* s.iloc[-1] of a non-empty series: the value at its last (largest) label
Last(s) == s[CHOOSE y \in DOMAIN s : \A z \in DOMAIN s : z <= y]

\* a P/E undefined for a missing or zero EPS only
PriceEarnings_ZeroOnly(price, latest_eps) ==
    IF IsNaN(latest_eps) \/ IsZero(latest_eps)
    THEN NaN ELSE FDiv(price, latest_eps)

\* line 224
PriceEarnings(price, latest_eps) ==
    IF IsNaN(latest_eps) \/ latest_eps.k = "ninf"
          \/ (IsFin(latest_eps) /\ latest_eps.p <= 0)
    THEN NaN ELSE FDiv(price, latest_eps)

\* line 236
PriceToBook(price, book_value_per_share) ==
    IF book_value_per_share = None \/ IsNaN(book_value_per_share)
          \/ IsZero(book_value_per_share)
    THEN NaN ELSE FDiv(price, book_value_per_share)

\* lines 204-209: the price, or the exception raised on the way to it
PriceLookup(prov) ==
    IF prov.fail = "fast_info" THEN [exc |-> "ProviderError", price |-> NaN]
    ELSE IF ~NoneOrNaN(prov.last_price) THEN [exc |-> "none", price |-> prov.last_price]
    ELSE IF ~NoneOrNaN(prov.last_close) THEN [exc |-> "none", price |-> prov.last_close]
    ELSE IF prov.fail = "history" THEN [exc |-> "ProviderError", price |-> NaN]
    ELSE IF prov.close = <<>> THEN [exc |-> "none", price |-> NaN]
    ELSE LET valid == {i \in 1..Len(prov.close) : ~IsNaN(prov.close[i])}
         IN  IF valid = {} THEN [exc |-> "IndexError", price |-> NaN]
             ELSE [exc |-> "none",
                   price |-> prov.close[CHOOSE i \in valid : \A j \in valid : j <= i]]

Metrics == {"Price", "Market Cap", "EPS (latest FY)", "P/E", "Book Value/Share",
            "P/B", "Trailing 12m Dividends", "Dividend Yield"}

\* a market block that assigned the table before asking for the dividends
MarketBlock_TableFirst(incDf, balDf, prov) ==
    LET pl == PriceLookup(prov)
    IN  IF pl.exc # "none" THEN [exc |-> pl.exc, df |-> <<>>]
        ELSE IF prov.fail = "dividends"
        THEN [exc |-> "ProviderError", df |-> [m \in Metrics |-> pl.price]]
        ELSE [exc |-> "none", df |-> [m \in Metrics |-> pl.price]]

\* the try block: the exception it ends with ("none": it ran to its end) and
\* the market table it assigned (empty when an exception cut it short)
MarketBlock(incDf, balDf, prov) ==
    LET pl == PriceLookup(prov)
        price == pl.price
        so1 == sget(balDf, "Share Issued")
        shares_out == IF IsEmptySeries(so1) THEN sget(balDf, "Ordinary Shares Number") ELSE so1
        mc0 == prov.market_cap
        \* latest_year is a year, so truthy, whenever shares_out is non-empty
        market_cap == IF NoneOrNaN(mc0) /\ ~IsEmptySeries(shares_out)
                      THEN FMul(price, Last(shares_out)) ELSE mc0
        e1 == sget(incDf, "Basic EPS")
        eps == IF IsEmptySeries(e1) THEN sget(incDf, "Diluted EPS") ELSE e1
        latest_eps == IF IsEmptySeries(eps) THEN NaN ELSE Last(eps)
        pe == PriceEarnings(price, latest_eps)
        book_equity == TotalEquityOf(balDf)
        book_value_per_share ==
            IF ~IsEmptySeries(book_equity) /\ ~IsEmptySeries(shares_out)
                  /\ ~IsZero(Last(shares_out))
            THEN FDiv(Last(book_equity), Last(shares_out)) ELSE NaN
        pb == PriceToBook(price, book_value_per_share)
        trailing_div == IF prov.dividends = None THEN NaN ELSE prov.dividends
        dividend_yield == IF price = None \/ IsNaN(price) \/ IsZero(price)
                          THEN NaN ELSE FDiv(trailing_div, price)
    IN  IF pl.exc # "none" THEN [exc |-> pl.exc, df |-> <<>>]
        ELSE IF prov.fail = "dividends" THEN [exc |-> "ProviderError", df |-> <<>>]
        ELSE [exc |-> "none",
              df |-> [m \in Metrics |->
                        CASE m = "Price" -> price
                          [] m = "Market Cap" -> market_cap
                          [] m = "EPS (latest FY)" -> latest_eps
                          [] m = "P/E" -> pe
                          [] m = "Book Value/Share" -> book_value_per_share
                          [] m = "P/B" -> pb
                          [] m = "Trailing 12m Dividends" -> trailing_div
                          [] OTHER -> dividend_yield]]

(***************************************************************************)
(* The script (src/Ratio.py:177-326), one run for an entered ticker.       *)
(***************************************************************************)
\* a terminal check written with 'and' in place of 'or'
InsufficientData_BothEmpty(incDf, balDf) == IsEmptyFrame(incDf) /\ IsEmptyFrame(balDf)

\* line 182: inc.empty or bal.empty
InsufficientData(incDf, balDf) == IsEmptyFrame(incDf) \/ IsEmptyFrame(balDf)

\* df.loc[slice(lo, hi)] on a sorted integer index: both ends included
SliceFrame(f, lo, hi) ==
    LET keep == {i \in 1..Len(f.index) : lo <= f.index[i] /\ f.index[i] <= hi}
    IN  [index |-> Pick(f.index, keep, 1),
         col |-> [c \in DOMAIN f.col |->
                    [y \in {f.index[i] : i \in keep} |-> f.col[c][y]]]]

\* lines 317-322: the four tables joined on the year, columns prefixed
Combined(p, l, v, e) ==
    [index |-> Sorted(Range(p.index) \cup Range(l.index) \cup Range(v.index) \cup Range(e.index)),
     col |-> <<p.col, l.col, v.col, e.col>>]

AppYears == {2023, 2024}
PriceVal == 10
PriceFeeds ==
    { [last_price |-> Num(PriceVal), last_close |-> None, close |-> <<>>],
      [last_price |-> Num(0), last_close |-> None, close |-> <<>>],
      [last_price |-> None, last_close |-> Num(PriceVal), close |-> <<>>],
      [last_price |-> NaN, last_close |-> None, close |-> <<Num(PriceVal), NaN>>],
      [last_price |-> None, last_close |-> NaN, close |-> <<>>],
      [last_price |-> None, last_close |-> None, close |-> <<NaN>>] }
Providers ==
    {[last_price |-> f.last_price, last_close |-> f.last_close, close |-> f.close,
      market_cap |-> mc, dividends |-> dv, fail |-> fl] :
        f \in PriceFeeds, mc \in {None, Num(PriceVal * PriceVal)},
        dv \in {None, NaN, Num(4)},
        fl \in {"none", "fast_info", "history", "dividends"}}

Init ==
    /\ pc = "start"
    /\ show_market \in BOOLEAN
    /\ market_df = <<>> /\ exc = "none" /\ messages = <<>> /\ shown = {} /\ csv = <<>>
    /\ raised = FALSE
    /\ DivIdle /\ NormIdle /\ StmtIdle /\ RatioIdle

\* lines 178-180: load_statements(ticker)
Load ==
    /\ pc = "start"
    /\ pc' = "loaded"
    /\ \E l \in Layouts, si \in [AppYears -> 0..NShapes], sb \in [AppYears -> 0..NShapes] :
          /\ inc' = norm(RawStatement(IncCols, l.inc, si))
          /\ bal' = norm(RawStatement(BalCols, l.bal, sb))
    /\ UNCHANGED <<raised, divVars, normVars, ratioVars, uiVars>>

\* lines 182-184: st.error(...); st.stop()
TerminalStop ==
    /\ pc = "loaded"
    /\ InsufficientData(inc, bal)
    /\ pc' = "stopped"
    /\ messages' = Append(messages, "error: insufficient data")
    /\ UNCHANGED <<raised, divVars, normVars, stmtVars, ratioVars,
                   show_market, market_df, exc, shown, csv>>

\* line 186
CallComputeRatios ==
    /\ pc = "loaded"
    /\ ~InsufficientData(inc, bal)
    /\ pc' = "computed"
    /\ LET r == compute_ratios(inc, bal)
       IN  /\ profitability' = r.profitability
           /\ liquidity' = r.liquidity
           /\ leverage' = r.leverage
           /\ efficiency' = r.efficiency
           /\ locals' = r.locals
           /\ raised' = r.raised
    /\ UNCHANGED <<divVars, normVars, stmtVars, uiVars>>

\* lines 189-198: the year-range slider and the slice it selects
YearRange ==
    /\ pc = "computed"
    /\ pc' = "sliced"
    /\ LET all_years == Sorted(Range(profitability.index) \cup Range(liquidity.index)
                               \cup Range(leverage.index) \cup Range(efficiency.index))
       IN  IF all_years = <<>> THEN UNCHANGED tableVars
           ELSE \E lo, hi \in all_years[1]..all_years[Len(all_years)] :
                  /\ lo <= hi
                  /\ profitability' = SliceFrame(profitability, lo, hi)
                  /\ liquidity' = SliceFrame(liquidity, lo, hi)
                  /\ leverage' = SliceFrame(leverage, lo, hi)
                  /\ efficiency' = SliceFrame(efficiency, lo, hi)
    /\ UNCHANGED <<raised, divVars, normVars, stmtVars, locals, uiVars>>

\* lines 201-247
Market ==
    /\ pc = "sliced"
    /\ pc' = "market_done"
    /\ IF ~show_market
       THEN UNCHANGED <<market_df, exc, messages>>
       ELSE \E prov \in Providers :
              LET r == MarketBlock(inc, bal, prov)
              IN  /\ exc' = r.exc
                  /\ market_df' = r.df
                  /\ messages' = IF r.exc = "none" THEN messages
                                 ELSE Append(messages, "info: market ratio data incomplete")
    /\ UNCHANGED <<raised, divVars, normVars, stmtVars, ratioVars, show_market, shown, csv>>

\* lines 250-312: the tabs
Display ==
    /\ pc = "market_done"
    /\ pc' = "displayed"
    /\ shown' = {"Profitability", "Liquidity", "Leverage", "Efficiency"}
    /\ messages' = IF market_df = <<>>
                   THEN Append(messages, "info: market data not available")
                   ELSE messages
    /\ UNCHANGED <<raised, divVars, normVars, stmtVars, ratioVars,
                   show_market, market_df, exc, csv>>

\* lines 315-324
Download ==
    /\ pc = "displayed"
    /\ pc' = "done"
    /\ csv' = Combined(profitability, liquidity, leverage, efficiency)
    /\ UNCHANGED <<raised, divVars, normVars, stmtVars, ratioVars,
                   show_market, market_df, exc, messages, shown>>

Next ==
    \/ Load
    \/ TerminalStop
    \/ CallComputeRatios
    \/ YearRange
    \/ Market
    \/ Display
    \/ Download

Spec == Init /\ [][Next]_vars

\* the script is a single thread that runs from the market block to its last
\* line: the display (lines 250-312) and the export (lines 315-324) are
\* executed once they are reached
FairSpec == Spec /\ WF_vars(Display) /\ WF_vars(Download)

AfterCompute == {"computed", "sliced", "market_done", "displayed", "done"}
AfterMarket == {"market_done", "displayed", "done"}
Families == {"Profitability", "Liquidity", "Leverage", "Efficiency"}

\* C2 as stated: the script stops (error reported, compute_ratios not called)
\* exactly when both statements are empty; with only one of them empty
\* compute_ratios is still called.
C2_StopOnlyWhenBothEmpty ==
    /\ pc = "stopped" => (IsEmptyFrame(inc) /\ IsEmptyFrame(bal))
    /\ pc \in AfterCompute => ~(IsEmptyFrame(inc) /\ IsEmptyFrame(bal))

\* C2 amended: the script stops (error reported, compute_ratios never called)
\* exactly when at least one of the two normalized statements is empty;
\* compute_ratios is called only when neither is.
C2_StopWhenEitherEmpty ==
    /\ pc = "stopped" =>
          /\ IsEmptyFrame(inc) \/ IsEmptyFrame(bal)
          /\ messages = <<"error: insufficient data">>
          /\ RatioIdle
    /\ pc \in AfterCompute => (~IsEmptyFrame(inc) /\ ~IsEmptyFrame(bal))

\* the script has stopped with an income statement and no balance sheet
C2_Witness ==
    /\ pc = "stopped"
    /\ ~IsEmptyFrame(inc) /\ IsEmptyFrame(bal)
    /\ profitability = NoFrame

\* C9: a failure raised inside the market-ratio block is caught there: the
\* block issues exactly one informational message, leaves the market table
\* empty and the four ratio tables as they were; and from there the four
\* families are displayed and the CSV export is reached.
C9_MarketFailureContained ==
    /\ [][(pc = "sliced" /\ pc' = "market_done" /\ exc' # "none") =>
            /\ market_df' = <<>>
            /\ messages' = Append(messages, "info: market ratio data incomplete")
            /\ tableVars' = tableVars]_vars
    /\ [](pc \in AfterMarket /\ exc # "none" => market_df = <<>>)
    /\ (pc = "market_done" /\ exc # "none")
          ~> (pc = "done" /\ shown = Families
                /\ csv = Combined(profitability, liquidity, leverage, efficiency))

\* the history lookup failed inside the block, and the run reached the export
C9_Witness ==
    /\ pc = "done"
    /\ exc = "IndexError"
    /\ market_df = <<>>
    /\ shown = Families
    /\ Len(csv.index) = 2
    /\ messages = <<"info: market ratio data incomplete", "info: market data not available">>

EpsAliases == <<"Basic EPS", "Diluted EPS">>

\* the value of a column at the latest year in which it holds a number
LatestValid(df, col) ==
    LET ys == ValidYears(df, col)
        y == CHOOSE z \in ys : \A w \in ys : w <= z
    IN  df.rows[CHOOSE i \in 1..Len(df.rows) : df.rows[i].idx.o = y].row[col]

\* C10: in the market table P/E is missing whenever the latest EPS is
\* missing, zero or negative, and otherwise equals price / EPS, never a
\* negative number; P/B is missing whenever book value per share is missing
\* or exactly zero, and otherwise equals price / book value per share.
C10_PriceRatios ==
    (pc \in AfterMarket /\ market_df # <<>>) =>
      LET price == market_df["Price"]
          eps == market_df["EPS (latest FY)"]
          pe == market_df["P/E"]
          bvps == market_df["Book Value/Share"]
          pb == market_df["P/B"]
          a == FirstAlias(inc, EpsAliases)
      IN  /\ eps = (IF a = "" THEN NaN ELSE LatestValid(inc, a))
          /\ IF IsNaN(eps) \/ Sign(eps) <= 0
             THEN IsNaN(pe)
             ELSE pe = FDiv(price, eps) /\ (IsNaN(pe) \/ Sign(pe) >= 0)
          /\ IF IsNaN(bvps) \/ IsZero(bvps)
             THEN IsNaN(pb)
             ELSE pb = FDiv(price, bvps)

\* at a price of 10 the latest EPS is negative and P/E is missing, while book
\* value per share is a non-zero number and P/B is price over it
C10_Witness ==
    /\ pc = "market_done"
    /\ market_df # <<>>
    /\ market_df["Price"] = Num(PriceVal)
    /\ IsFin(market_df["EPS (latest FY)"]) /\ Sign(market_df["EPS (latest FY)"]) < 0
    /\ IsNaN(market_df["P/E"])
    /\ IsFin(market_df["Book Value/Share"]) /\ ~IsZero(market_df["Book Value/Share"])
    /\ market_df["P/B"] = FDiv(Num(PriceVal), market_df["Book Value/Share"])

====
